---- MODULE Spec2Model ----
(***************************************************************************)
(* Model of src/mainn.py: LanguageSwitcherAgent, a voice agent whose       *)
(* function tools switch the languages of its speech-to-text (stt) and     *)
(* text-to-speech (tts) handles and announce the switch.                   *)
(*                                                                         *)
(* Every coroutine of a session runs on that session's asyncio event loop: *)
(* a coroutine keeps the loop from statement to statement and gives it up  *)
(* only at an await that suspends (the playout of session.say) or when it  *)
(* returns or raises.  running[s] is the slot of the coroutine that holds  *)
(* the loop of session s, 0 when the loop is free.                         *)
(***************************************************************************)
EXTENDS Naturals, Sequences, FiniteSets, TLC

\* Bounds of the model.
NumSessions == 2
MaxTasks == 2

Sessions == 1..NumSessions
AllSlots == 1..MaxTasks

(***************************************************************************)
(* The language tables of __init__.                                        *)
(***************************************************************************)
language_names ==
    [en |-> "English", es |-> "Spanish", fr |-> "French",
     de |-> "German", it |-> "Italian", ta |-> "Tamil"]

deepgram_codes ==
    [en |-> "en", es |-> "es", fr |-> "fr-CA",
     de |-> "de", it |-> "it", ta |-> "ta"]

greetings ==
    [en |-> "Hello! I'm now speaking in English. How can I help you today?",
     es |-> "¡Hola! Ahora estoy hablando en español. ¿Cómo puedo ayudarte hoy?",
     fr |-> "Bonjour ! Je parle maintenant en français. Comment puis-je vous aider aujourd'hui ?",
     de |-> "Hallo! Ich spreche jetzt Deutsch. Wie kann ich Ihnen heute helfen?",
     it |-> "Ciao! Ora sto parlando in italiano. Come posso aiutarti oggi?",
     ta |-> "வணக்கம்! நான் இப்போது தமிழில் பேசுகிறேன். இன்று நான் உங்களுக்கு எவ்வாறு உதவ முடியும்?"]

\* The text on_enter speaks.
announcement ==
    "Hi there! I can speak in English, Spanish, French, German, "
    \o "Italian, or Tamil. Just ask me to switch to one of them. "
    \o "Which language would you like me to use?"

\* The language both speech handles are constructed with.
default_language == "en"

\* Faulty variant: the agent starts out recorded as speaking Spanish.
initial_language_spanish == "es"
\* self.current_language = "en"
initial_language == "en"

\* The codes the six function tools pass, and a code no table holds.
Codes == {"en", "es", "fr", "de", "it", "ta"}
InvalidCodes == {"pt"}

\* Python's d[k] raises KeyError unless k is a key of d.
HasKey(d, k) == k \in DOMAIN d

\* Python's d.get(k, default).
DictGet(d, k, default) == IF k \in DOMAIN d THEN d[k] ELSE default

\* Faulty variant: the recognizer is handed the bare code.
NewCode_bare(code) == code
\* new_code = self.deepgram_codes.get(code, code)
NewCode(code) == DictGet(deepgram_codes, code, code)

\* Faulty variant: the synthesizer is handed the recognizer's code.
TtsCode_deepgram(code) == DictGet(deepgram_codes, code, code)
\* The language handed to self.tts.update_options.
TtsCode(code) == code

\* Faulty variant: the message names the code, not the display name.
AlreadyMessage_code(code) == "I'm already speaking in " \o code \o "."
\* f"I'm already speaking in {self.language_names[code]}."
AlreadyMessage(code) == "I'm already speaking in " \o language_names[code] \o "."

\* Faulty variant: every switch is greeted in English.
Greeting_english(code) == greetings["en"]
\* self.greetings[code]
Greeting(code) == greetings[code]

(***************************************************************************)
(* State.                                                                  *)
(***************************************************************************)
VARIABLES
    current_language,   \* [s] self.current_language
    stt,                \* [s] the recognizer handle: [present, language]
    tts,                \* [s] the synthesizer handle: [present, language]
    phase,              \* [s] "none" | "created" | "entered"
    announced,          \* [s] how many times the announcement was handed to the channel
    tasks,              \* [s][t] a _switch_language coroutine: [pc, code, cur0, trace]
    running,            \* [s] the slot holding the event loop, 0 if it is free
    hist,               \* [s] the last two calls, in the order of their checks
    registry,           \* [s] self.language_names, self.deepgram_codes, self.greetings
    tool                \* [s][t] the function tool whose call runs in slot t

vars == <<current_language, stt, tts, phase, announced, tasks, running, hist,
          registry, tool>>

\* The three dicts as __init__ builds them.
Tables ==
    [language_names |-> language_names,
     deepgram_codes |-> deepgram_codes,
     greetings |-> greetings]

\* No function tool runs in the slot.
NoTool == "none"

\* One entry of a coroutine's trace: a call it issued to a collaborator
\* (op "stt", "tts" or "say", with the argument passed), its write of
\* current_language (op "commit"), or the exception it ended with ("raise").
Ev(op, arg) == [op |-> op, arg |-> arg]

IdleTask == [pc |-> "idle", code |-> "none", cur0 |-> "none", trace |-> <<>>]

NoHist == [last |-> 0, lastCode |-> "none", lastFailed |-> FALSE,
           prev |-> 0, prevCode |-> "none", prevFailed |-> FALSE]

\* The coroutine slots of session s.
Slots(s) == DOMAIN tasks[s]

Finished(task) == task.pc \in {"done", "raised"}

\* No coroutine of s has finished without its result having been collected.
Quiescent(s) == \A t \in Slots(s) : ~Finished(tasks[s][t])

\* Coroutine t of s can execute its next statement: it holds the loop, or the
\* loop is free and picks it.
Runs(s, t) ==
    /\ t \in Slots(s)
    /\ running[s] = t \/ (running[s] = 0 /\ Quiescent(s))

\* Faulty variant: every statement gives the loop up.
Awaits_every(stmt) == TRUE
\* The statements of _switch_language that suspend: the two awaits of
\* session.say.  update_options and the assignment are plain calls.
Awaits(stmt) == stmt \in {"already", "greet"}

\* Who holds the loop after coroutine t has executed stmt.
Yield(stmt, t) == IF Awaits(stmt) THEN 0 ELSE t

\* Faulty variant: current_language is written before the synthesizer update.
Successor_commit_early(stmt) ==
    CASE stmt = "stt" -> "commit"
      [] stmt = "commit" -> "tts"
      [] stmt = "tts" -> "greet"
\* The statement after stmt on the language-changing path.
Successor(stmt) ==
    CASE stmt = "stt" -> "tts"
      [] stmt = "tts" -> "commit"
      [] stmt = "commit" -> "greet"

\* Faulty variant: the comparison never succeeds.
SameLanguage_never(code, cur) == FALSE
\* if code == self.current_language
SameLanguage(code, cur) == code = cur

\* Faulty variant: the update is issued whether or not the handle is there.
Truthy_always(handle) == TRUE
\* if self.stt: / if self.tts: the handle is there.
Truthy(handle) == handle.present

\* Faulty variant: a failed say restores the language the call found.
Unwind_rollback(s, t) ==
    /\ current_language' = [current_language EXCEPT ![s] = tasks[s][t].cur0]
    /\ UNCHANGED <<stt, tts>>
\* An exception of session.say leaves _switch_language through no handler:
\* nothing is undone on the way out.
Unwind(s, t) == UNCHANGED <<current_language, stt, tts>>

SetTask(s, t, task) == tasks' = [tasks EXCEPT ![s][t] = task]

\* Faulty variant: the lookup is a setdefault, which stores a missing code.
ReadCodes_setdefault(s, code) ==
    registry' = [registry EXCEPT ![s].deepgram_codes =
                    IF code \in DOMAIN @ THEN @ ELSE (code :> code) @@ @]
\* self.deepgram_codes.get(code, code) reads the dict and stores nothing.
ReadCodes(s, code) == UNCHANGED registry

(***************************************************************************)
(* Session start: entrypoint creates the agent and starts the session,     *)
(* which runs on_enter.                                                    *)
(***************************************************************************)
\* Faulty variant: the hook says nothing.
on_enter_silent == <<>>
\* What on_enter hands to the output channel.
on_enter == <<announcement>>

\* entrypoint: session.start(agent=LanguageSwitcherAgent()) runs on_enter up
\* to its await.  The output channel takes the utterance or fails; either way
\* the agent is left as it was, so the two outcomes are one state here.
entrypoint(s) ==
    /\ phase[s] = "created"
    /\ announced' = [announced EXCEPT ![s] = @ + Len(on_enter)]
    /\ phase' = [phase EXCEPT ![s] = "entered"]
    /\ UNCHANGED <<current_language, stt, tts, tasks, running, hist>>
    /\ UNCHANGED <<registry, tool>>

\* The function tools are dispatched once the session has started its agent
\* (the framework's contract for Agent.on_enter and function tools).
Started(s) == phase[s] = "entered"

(***************************************************************************)
(* _switch_language, statement by statement.                               *)
(***************************************************************************)
\* A call of _switch_language(code) starts a coroutine in a free slot (the
\* lowest one), which executes
\*     if code == self.current_language:
Call(s, t, code) ==
    LET h == hist[s]
    IN /\ Started(s)
       /\ t \in Slots(s)
       /\ running[s] = 0
       /\ Quiescent(s)
       /\ tasks[s][t].pc = "idle"
       /\ \A u \in Slots(s) : u < t => tasks[s][u].pc # "idle"
       /\ SetTask(s, t, [IdleTask EXCEPT
              !.pc = IF SameLanguage(code, current_language[s])
                     THEN "already" ELSE "stt",
              !.code = code,
              !.cur0 = current_language[s]])
       /\ hist' = [hist EXCEPT ![s] =
              [last |-> t, lastCode |-> code, lastFailed |-> FALSE,
               prev |-> h.last, prevCode |-> h.lastCode,
               prevFailed |-> h.lastFailed]]
       /\ running' = [running EXCEPT ![s] = Yield("check", t)]
       /\ UNCHANGED <<current_language, stt, tts, phase, announced, registry>>

\* The coroutine raises: it ends, and the loop is free.
Raise(s, t, issued, what) ==
    /\ SetTask(s, t, [tasks[s][t] EXCEPT
           !.pc = "raised", !.trace = @ \o issued \o <<Ev("raise", what)>>])
    /\ running' = [running EXCEPT ![s] = 0]
    /\ hist' = [hist EXCEPT ![s].lastFailed = @ \/ hist[s].last = t]

\* The table the say of statement stmt looks its text up in, and the text.
Table(stmt) == IF stmt = "already" THEN language_names ELSE greetings
Text(stmt, code) ==
    IF stmt = "already" THEN AlreadyMessage(code) ELSE Greeting(code)

\* await self.session.say(text) at statement stmt: the text is looked up and
\* handed to the output channel, which takes it, so that the coroutine awaits
\* the playout, or fails, so that the call raises.
Say(s, t, stmt) ==
    LET task == tasks[s][t]
    IN IF ~HasKey(Table(stmt), task.code)
       THEN Raise(s, t, <<>>, "KeyError") /\ UNCHANGED <<current_language, stt, tts>>
       ELSE \E ok \in BOOLEAN :
              IF ok
              THEN /\ SetTask(s, t, [task EXCEPT
                          !.pc = "await_" \o stmt,
                          !.trace = Append(@, Ev("say", Text(stmt, task.code)))])
                   /\ running' = [running EXCEPT ![s] = Yield(stmt, t)]
                   /\ UNCHANGED <<hist, current_language, stt, tts>>
              ELSE /\ Raise(s, t, <<Ev("say", Text(stmt, task.code))>>, "SayError")
                   /\ Unwind(s, t)

\* await self.session.say(f"I'm already speaking in {...}.")
SayAlready(s, t) ==
    /\ Runs(s, t)
    /\ tasks[s][t].pc = "already"
    /\ Say(s, t, "already")
    /\ UNCHANGED <<phase, announced, registry, tool>>

\* if self.stt: self.stt.update_options(language=new_code)
UpdateStt(s, t) ==
    LET task == tasks[s][t]
    IN /\ Runs(s, t)
       /\ task.pc = "stt"
       /\ IF Truthy(stt[s])
          THEN /\ stt' = [stt EXCEPT ![s].language = NewCode(task.code)]
               /\ SetTask(s, t, [task EXCEPT
                      !.pc = Successor("stt"),
                      !.trace = Append(@, Ev("stt", NewCode(task.code)))])
          ELSE /\ SetTask(s, t, [task EXCEPT !.pc = Successor("stt")])
               /\ UNCHANGED stt
       /\ ReadCodes(s, task.code)
       /\ running' = [running EXCEPT ![s] = Yield("stt", t)]
       /\ UNCHANGED <<current_language, tts, phase, announced, hist, tool>>

\* if self.tts: self.tts.update_options(language=code)
UpdateTts(s, t) ==
    LET task == tasks[s][t]
    IN /\ Runs(s, t)
       /\ task.pc = "tts"
       /\ IF Truthy(tts[s])
          THEN /\ tts' = [tts EXCEPT ![s].language = TtsCode(task.code)]
               /\ SetTask(s, t, [task EXCEPT
                      !.pc = Successor("tts"),
                      !.trace = Append(@, Ev("tts", TtsCode(task.code)))])
          ELSE /\ SetTask(s, t, [task EXCEPT !.pc = Successor("tts")])
               /\ UNCHANGED tts
       /\ running' = [running EXCEPT ![s] = Yield("tts", t)]
       /\ UNCHANGED <<current_language, stt, phase, announced, hist>>
       /\ UNCHANGED <<registry, tool>>

\* Faulty variant: current_language is one attribute shared by every agent.
Commit_shared(s, t) ==
    LET task == tasks[s][t]
    IN /\ Runs(s, t)
       /\ task.pc = "commit"
       /\ current_language' = [x \in Sessions |-> task.code]
       /\ SetTask(s, t, [task EXCEPT
              !.pc = Successor("commit"),
              !.trace = Append(@, Ev("commit", task.code))])
       /\ running' = [running EXCEPT ![s] = Yield("commit", t)]
       /\ UNCHANGED <<stt, tts, phase, announced, hist, registry, tool>>

\* Faulty variant: the recognizer's code is recorded as the current language.
Commit_new_code(s, t) ==
    LET task == tasks[s][t]
    IN /\ Runs(s, t)
       /\ task.pc = "commit"
       /\ current_language' = [current_language EXCEPT ![s] = NewCode(task.code)]
       /\ SetTask(s, t, [task EXCEPT
              !.pc = Successor("commit"),
              !.trace = Append(@, Ev("commit", NewCode(task.code)))])
       /\ running' = [running EXCEPT ![s] = Yield("commit", t)]
       /\ UNCHANGED <<stt, tts, phase, announced, hist, registry, tool>>

\* self.current_language = code
Commit(s, t) ==
    LET task == tasks[s][t]
    IN /\ Runs(s, t)
       /\ task.pc = "commit"
       /\ current_language' = [current_language EXCEPT ![s] = task.code]
       /\ SetTask(s, t, [task EXCEPT
              !.pc = Successor("commit"),
              !.trace = Append(@, Ev("commit", task.code))])
       /\ running' = [running EXCEPT ![s] = Yield("commit", t)]
       /\ UNCHANGED <<stt, tts, phase, announced, hist, registry, tool>>

\* await self.session.say(self.greetings[code])
Greet(s, t) ==
    /\ Runs(s, t)
    /\ tasks[s][t].pc = "greet"
    /\ Say(s, t, "greet")
    /\ UNCHANGED <<phase, announced, registry, tool>>

\* The utterance has played out: the await returns and so does the coroutine.
Resume(s, t) ==
    LET task == tasks[s][t]
    IN /\ Runs(s, t)
       /\ task.pc \in {"await_already", "await_greet"}
       /\ SetTask(s, t, [task EXCEPT !.pc = "done"])
       /\ running' = [running EXCEPT ![s] = 0]
       /\ UNCHANGED <<current_language, stt, tts, phase, announced, hist>>
       /\ UNCHANGED <<registry, tool>>

\* The caller collects the result (or the exception) of a finished coroutine.
Collect(s, t) ==
    /\ t \in Slots(s)
    /\ Finished(tasks[s][t])
    /\ SetTask(s, t, IdleTask)
    /\ hist' = [hist EXCEPT
           ![s].last = IF @ = t THEN 0 ELSE @,
           ![s].prev = IF @ = t THEN 0 ELSE @]
    /\ tool' = [tool EXCEPT ![s][t] = NoTool]
    /\ UNCHANGED <<current_language, stt, tts, phase, announced, running>>
    /\ UNCHANGED registry

(***************************************************************************)
(* The function tools.                                                     *)
(***************************************************************************)
\* The function tool `name` has been dispatched into slot t.
Dispatched(s, t, name) == tool' = [tool EXCEPT ![s][t] = name]

switch_to_english(s, t) ==
    Call(s, t, "en") /\ Dispatched(s, t, "switch_to_english")
switch_to_spanish(s, t) ==
    Call(s, t, "es") /\ Dispatched(s, t, "switch_to_spanish")
switch_to_french(s, t) ==
    Call(s, t, "fr") /\ Dispatched(s, t, "switch_to_french")
\* Faulty variant: the German tool passes the Italian code.
switch_to_german_italian(s, t) ==
    Call(s, t, "it") /\ Dispatched(s, t, "switch_to_german")
switch_to_german(s, t) ==
    Call(s, t, "de") /\ Dispatched(s, t, "switch_to_german")
switch_to_italian(s, t) ==
    Call(s, t, "it") /\ Dispatched(s, t, "switch_to_italian")
switch_to_tamil(s, t) ==
    Call(s, t, "ta") /\ Dispatched(s, t, "switch_to_tamil")

\* _switch_language called directly with a code of no tool.
DirectCall(s, t) ==
    \E code \in InvalidCodes :
        Call(s, t, code) /\ Dispatched(s, t, "_switch_language")

(***************************************************************************)
(* Specifications.                                                         *)
(***************************************************************************)
\* A speech handle as _switch_language sees it: there or not (the test of
\* "if self.stt"), and with its language option.  __init__ passes both
\* handles; the framework's Agent decides what self.stt and self.tts return.
Handles == [present : BOOLEAN, language : {default_language}]

\* The sessions of `live` have been created, each with `slots` coroutine slots.
InitOf(live, slots) ==
    /\ current_language = [s \in Sessions |-> initial_language]
    /\ stt \in [Sessions -> Handles]
    /\ tts \in [Sessions -> Handles]
    /\ \A s \in Sessions \ live : stt[s].present /\ tts[s].present
    /\ phase = [s \in Sessions |-> IF s \in live THEN "created" ELSE "none"]
    /\ announced = [s \in Sessions |-> 0]
    /\ tasks = [s \in Sessions |-> [t \in 1..slots |-> IdleTask]]
    /\ running = [s \in Sessions |-> 0]
    /\ hist = [s \in Sessions |-> NoHist]
    /\ registry = [s \in Sessions |-> Tables]
    /\ tool = [s \in Sessions |-> [t \in 1..slots |-> NoTool]]

Step(s, t) ==
    \/ SayAlready(s, t)
    \/ UpdateStt(s, t)
    \/ UpdateTts(s, t)
    \/ Commit(s, t)
    \/ Greet(s, t)
    \/ Resume(s, t)
    \/ Collect(s, t)

Tool(s, t) ==
    \/ switch_to_english(s, t)
    \/ switch_to_spanish(s, t)
    \/ switch_to_french(s, t)
    \/ switch_to_german(s, t)
    \/ switch_to_italian(s, t)
    \/ switch_to_tamil(s, t)

Next ==
    \E s \in Sessions :
        \/ entrypoint(s)
        \/ \E t \in AllSlots : Tool(s, t) \/ Step(s, t)

\* One session whose dispatcher makes one call at a time.
Init == InitOf({1}, 1)

Spec == Init /\ [][Next]_vars

\* One session whose controller is also called directly.
NextDirect == Next \/ \E s \in Sessions : \E t \in AllSlots : DirectCall(s, t)

SpecDirect == Init /\ [][NextDirect]_vars

\* One session, both handles attached, whose dispatcher has up to MaxTasks
\* calls in flight and asks for English, Spanish and French.
InitConcurrent ==
    /\ InitOf({1}, MaxTasks)
    /\ \A s \in Sessions : stt[s].present /\ tts[s].present

NextConcurrent ==
    \E s \in Sessions :
        \/ entrypoint(s)
        \/ \E t \in AllSlots :
              \/ switch_to_english(s, t)
              \/ switch_to_spanish(s, t)
              \/ switch_to_french(s, t)
              \/ Step(s, t)

SpecConcurrent == InitConcurrent /\ [][NextConcurrent]_vars

\* Every session live at once, each with its own agent, both handles attached
\* and one call at a time, asked for English and French.
InitSessions ==
    /\ InitOf(Sessions, 1)
    /\ \A s \in Sessions : stt[s].present /\ tts[s].present

NextSessions ==
    \E s \in Sessions :
        \/ entrypoint(s)
        \/ \E t \in AllSlots :
              \/ switch_to_english(s, t)
              \/ switch_to_french(s, t)
              \/ Step(s, t)

SpecSessions == InitSessions /\ [][NextSessions]_vars

(***************************************************************************)
(* Properties.                                                             *)
(***************************************************************************)
\* How many effects of kind op the trace holds.
Count(trace, op) == Cardinality({i \in DOMAIN trace : trace[i].op = op})

\* The effects of kind op of the trace, in order.
Only(trace, op) == SelectSeq(trace, LAMBDA e : e.op = op)

\* The coroutine has left its last statement: it awaits the playout, has
\* returned or has raised.
Through(task) == task.pc \in {"await_already", "await_greet", "done", "raised"}

\* The coroutine ended because the output channel failed, and for no other
\* reason.
ChannelFailed(task) ==
    /\ task.pc = "raised"
    /\ Only(task.trace, "raise") = <<Ev("raise", "SayError")>>

\* A call with a code of a tool made while that code was the current language,
\* and one made while another language was current.
SameCall(task) == task.code \in Codes /\ task.cur0 = task.code
ChangeCall(task) ==
    task.code \in Codes /\ task.cur0 \in Codes /\ task.cur0 # task.code

\* No call of session s has started after the one in slot t.
Latest(s, t) == hist[s].last = t

\* C1: switchTo(c) with currentLanguage = c leaves currentLanguage at c,
\* updates neither the recognizer nor the synthesizer, and its one utterance
\* is "I'm already speaking in " + the display name of c + "." (no greeting).
C1_SameCodeAcknowledged ==
    \A s \in Sessions : \A t \in Slots(s) :
        LET task == tasks[s][t]
        IN SameCall(task) =>
             /\ task.pc \in {"already", "await_already", "done", "raised"}
             /\ Latest(s, t) => current_language[s] = task.code
             /\ Count(task.trace, "stt") = 0
             /\ Count(task.trace, "tts") = 0
             /\ Count(task.trace, "commit") = 0
             /\ Through(task) =>
                  Only(task.trace, "say") =
                      <<Ev("say", "I'm already speaking in "
                                  \o language_names[task.code] \o ".")>>
             /\ task.pc = "raised" => ChannelFailed(task)

C1_Witness ==
    \E s \in Sessions : \E t \in Slots(s) :
        /\ tasks[s][t].pc = "done"
        /\ tasks[s][t].code = "fr"
        /\ tasks[s][t].cur0 = "fr"
        /\ current_language[s] = "fr"
        /\ tasks[s][t].trace = <<Ev("say", "I'm already speaking in French.")>>

\* C2: switchTo(c) with currentLanguage = cur # c writes currentLanguage once,
\* to c, speaks one utterance, the greeting of c, and updates each handle
\* once if it is present and not at all if it is absent, whatever switches
\* came before.
C2_ChangeOnce ==
    \A s \in Sessions : \A t \in Slots(s) :
        LET task == tasks[s][t]
        IN (ChangeCall(task) /\ Through(task)) =>
             /\ task.pc \in {"await_greet", "done", "raised"}
             /\ Only(task.trace, "commit") = <<Ev("commit", task.code)>>
             /\ Latest(s, t) => current_language[s] = task.code
             /\ Only(task.trace, "say") = <<Ev("say", greetings[task.code])>>
             /\ Count(task.trace, "stt") = IF stt[s].present THEN 1 ELSE 0
             /\ Count(task.trace, "tts") = IF tts[s].present THEN 1 ELSE 0
             /\ task.pc = "raised" => ChannelFailed(task)

\* en -> es -> en: the call back to English has spoken the English greeting.
C2_Witness ==
    \E s \in Sessions : \E t \in Slots(s) :
        /\ tasks[s][t].pc = "done"
        /\ tasks[s][t].code = "en"
        /\ tasks[s][t].cur0 = "es"
        /\ current_language[s] = "en"
        /\ stt[s].present /\ tts[s].present
        /\ Len(tasks[s][t].trace) = 4
        /\ tasks[s][t].trace[4] =
             Ev("say", "Hello! I'm now speaking in English. How can I help you today?")

\* The place of an effect in the order the controller is to keep.
Rank(op) ==
    CASE op = "stt" -> 1
      [] op = "tts" -> 2
      [] op = "commit" -> 3
      [] op = "say" -> 4
      [] op = "raise" -> 5

\* C3: a language-changing switchTo(c) acts in the order recognizer update,
\* synthesizer update, write of currentLanguage, greeting: currentLanguage
\* holds the old code until both updates have been issued, and holds c when
\* the greeting is spoken.
C3_Ordered ==
    \A s \in Sessions : \A t \in Slots(s) :
        LET task == tasks[s][t]
            tr == task.trace
        IN ChangeCall(task) =>
             /\ \A i, j \in DOMAIN tr : i < j => Rank(tr[i].op) < Rank(tr[j].op)
             /\ Count(tr, "commit") > 0 =>
                  /\ Count(tr, "stt") = IF stt[s].present THEN 1 ELSE 0
                  /\ Count(tr, "tts") = IF tts[s].present THEN 1 ELSE 0
             /\ (Latest(s, t) /\ Count(tr, "commit") = 0) =>
                  current_language[s] = task.cur0
             /\ Count(tr, "say") > 0 => Count(tr, "commit") = 1
             /\ (Latest(s, t) /\ task.pc = "greet") =>
                  current_language[s] = task.code

C3_Witness ==
    \E s \in Sessions : \E t \in Slots(s) :
        /\ tasks[s][t].pc = "await_greet"
        /\ tasks[s][t].cur0 = "en"
        /\ tasks[s][t].trace =
             <<Ev("stt", "de"), Ev("tts", "de"), Ev("commit", "de"),
               Ev("say", greetings["de"])>>

\* The recognizer code the registry is to hold for each language.
RecognizerCodeOf(c) == IF c = "fr" THEN "fr-CA" ELSE c

\* C4: a language-changing switchTo(c) sets the recognizer to the recognizer
\* code of c ("fr-CA" for fr, the code itself for the others) and the
\* synthesizer to c itself.
C4_HandleLanguages ==
    \A s \in Sessions : \A t \in Slots(s) :
        LET task == tasks[s][t]
            tr == task.trace
        IN ChangeCall(task) =>
             /\ \A i \in DOMAIN tr :
                  /\ tr[i].op = "stt" => tr[i].arg = RecognizerCodeOf(task.code)
                  /\ tr[i].op = "tts" => tr[i].arg = task.code
             /\ (Latest(s, t) /\ Count(tr, "commit") > 0) =>
                  /\ stt[s].present => stt[s].language = RecognizerCodeOf(task.code)
                  /\ tts[s].present => tts[s].language = task.code

C4_Witness ==
    \E s \in Sessions : \E t \in Slots(s) :
        /\ tasks[s][t].pc = "done"
        /\ tasks[s][t].code = "fr"
        /\ tasks[s][t].cur0 = "en"
        /\ stt[s] = [present |-> TRUE, language |-> "fr-CA"]
        /\ tts[s] = [present |-> TRUE, language |-> "fr"]
        /\ current_language[s] = "fr"

\* C5: when switchTo(c) follows switchTo(c), currentLanguage is c after each
\* of the two calls, and the second speaks only "I'm already speaking in
\* ...", not the greeting, and updates no handle.
C5_Idempotent ==
    \A s \in Sessions : \A t \in Slots(s) :
        LET task == tasks[s][t]
            tr == task.trace
        IN (Latest(s, t) /\ task.code \in Codes) =>
             /\ Through(task) => current_language[s] = task.code
             /\ hist[s].prevCode = task.code =>
                  /\ task.pc \in {"already", "await_already", "done", "raised"}
                  /\ current_language[s] = task.code
                  /\ \A i \in DOMAIN tr : tr[i].op \in {"say", "raise"}
                  /\ Through(task) =>
                       Only(tr, "say") =
                           <<Ev("say", "I'm already speaking in "
                                       \o language_names[task.code] \o ".")>>

C5_Witness ==
    \E s \in Sessions : \E t \in Slots(s) :
        /\ Latest(s, t)
        /\ hist[s].prevCode = "es"
        /\ ~hist[s].prevFailed
        /\ tasks[s][t].code = "es"
        /\ tasks[s][t].pc = "done"
        /\ tasks[s][t].trace = <<Ev("say", "I'm already speaking in Spanish.")>>
        /\ current_language[s] = "es"

\* C6: _switch_language called with a code outside the six fails fast: it
\* raises, it hands the code to neither handle, and currentLanguage stays as
\* it was.
C6_FailFast ==
    \A s \in Sessions : \A t \in Slots(s) :
        LET task == tasks[s][t]
        IN task.code \in InvalidCodes =>
             /\ Count(task.trace, "stt") = 0
             /\ Count(task.trace, "tts") = 0
             /\ Count(task.trace, "commit") = 0
             /\ stt[s].language # task.code
             /\ tts[s].language # task.code
             /\ current_language[s] # task.code
             /\ Through(task) => task.pc = "raised"

\* C7: when the output channel fails on the greeting of a language-changing
\* switchTo(c), currentLanguage is c and the handles keep the languages the
\* call gave them; nothing is undone or issued a second time, and a
\* switchTo(c) that follows takes the "already speaking" path.
C7_NoRollback ==
    \A s \in Sessions :
        /\ \A t \in Slots(s) :
             LET task == tasks[s][t]
                 tr == task.trace
             IN /\ (ChangeCall(task) /\ ChannelFailed(task)) =>
                     /\ Only(tr, "commit") = <<Ev("commit", task.code)>>
                     /\ Count(tr, "stt") = IF stt[s].present THEN 1 ELSE 0
                     /\ Count(tr, "tts") = IF tts[s].present THEN 1 ELSE 0
                     /\ Count(tr, "say") = 1
                     /\ Latest(s, t) =>
                          /\ current_language[s] = task.code
                          /\ stt[s].present =>
                               stt[s].language = deepgram_codes[task.code]
                          /\ tts[s].present => tts[s].language = task.code
                /\ (Latest(s, t) /\ hist[s].prevFailed
                        /\ task.code \in Codes /\ hist[s].prevCode = task.code) =>
                     /\ task.cur0 = task.code
                     /\ task.pc \in {"already", "await_already", "done", "raised"}
                     /\ \A i \in DOMAIN tr : tr[i].op \in {"say", "raise"}
        /\ (hist[s].last = 0 /\ hist[s].lastFailed /\ hist[s].lastCode \in Codes) =>
             current_language[s] = hist[s].lastCode

\* The greeting of a switch to Italian failed, nothing was undone, and the call
\* switchTo("it") after it has answered "already speaking".
C7_Witness ==
    \E s \in Sessions : \E t \in Slots(s) :
        /\ Latest(s, t)
        /\ hist[s].prevFailed
        /\ hist[s].prevCode = "it"
        /\ tasks[s][t].code = "it"
        /\ tasks[s][t].pc = "done"
        /\ tasks[s][t].trace = <<Ev("say", "I'm already speaking in Italian.")>>
        /\ current_language[s] = "it"
        /\ stt[s].language = "it" /\ tts[s].language = "it"

\* C8: with a handle absent, a language-changing switchTo(c) skips the update
\* of that handle only: it raises nothing for it, still updates a handle that
\* is present, still writes currentLanguage and still speaks the greeting.
C8_SkipAbsent ==
    \A s \in Sessions : \A t \in Slots(s) :
        LET task == tasks[s][t]
            tr == task.trace
        IN (ChangeCall(task) /\ (~stt[s].present \/ ~tts[s].present)) =>
             /\ ~stt[s].present =>
                  Count(tr, "stt") = 0 /\ stt[s].language = default_language
             /\ ~tts[s].present =>
                  Count(tr, "tts") = 0 /\ tts[s].language = default_language
             /\ Through(task) =>
                  /\ stt[s].present =>
                       Only(tr, "stt") = <<Ev("stt", deepgram_codes[task.code])>>
                  /\ tts[s].present => Only(tr, "tts") = <<Ev("tts", task.code)>>
                  /\ Only(tr, "commit") = <<Ev("commit", task.code)>>
                  /\ Only(tr, "say") = <<Ev("say", greetings[task.code])>>
                  /\ Latest(s, t) => current_language[s] = task.code
                  /\ task.pc = "raised" => ChannelFailed(task)

C8_Witness ==
    \E s \in Sessions : \E t \in Slots(s) :
        /\ ~stt[s].present
        /\ tts[s] = [present |-> TRUE, language |-> "ta"]
        /\ tasks[s][t].pc = "done"
        /\ tasks[s][t].cur0 = "en"
        /\ tasks[s][t].trace =
             <<Ev("tts", "ta"), Ev("commit", "ta"), Ev("say", greetings["ta"])>>
        /\ current_language[s] = "ta"

\* The call in slot t of session s is in flight.
InFlight(s, t) == tasks[s][t].pc # "idle"

\* C9: with several switchTo calls of a session in flight, the check, the
\* updates and the commit of one call run with no other call in between:
\* from its check to its commit a call holds the event loop, every other call
\* is suspended at its say or has ended, and currentLanguage is what the call
\* read.  So of two switchTo(c) made one after the other while both are in
\* flight, c not being current at the first, the first alone updates the
\* handles and greets, and the second answers "already speaking".
C9_Atomic ==
    \A s \in Sessions : \A t \in Slots(s) :
        LET task == tasks[s][t]
            h == hist[s]
        IN /\ task.pc \in {"stt", "tts", "commit"} =>
                /\ running[s] = t
                /\ Latest(s, t)
                /\ current_language[s] = task.cur0
                /\ \A u \in Slots(s) \ {t} :
                     tasks[s][u].pc \in {"idle", "await_already", "await_greet",
                                         "done", "raised"}
           /\ (Latest(s, t) /\ h.prev \in Slots(s) \ {t} /\ task.code \in Codes
                   /\ tasks[s][h.prev].code = task.code
                   /\ tasks[s][h.prev].cur0 # task.code) =>
                /\ task.cur0 = task.code
                /\ task.pc \in {"already", "await_already", "done", "raised"}
                /\ \A i \in DOMAIN task.trace : task.trace[i].op \in {"say", "raise"}
                /\ Through(task) =>
                     Only(task.trace, "say") =
                         <<Ev("say", "I'm already speaking in "
                                     \o language_names[task.code] \o ".")>>
                /\ Count(tasks[s][h.prev].trace, "stt") = 1
                /\ Count(tasks[s][h.prev].trace, "tts") = 1
                /\ Only(tasks[s][h.prev].trace, "say") =
                     <<Ev("say", greetings[task.code])>>

\* Two calls switchTo("es") in flight at once: the first greeted, the second
\* answered "already speaking".
C9_Witness ==
    \E s \in Sessions : \E t, u \in Slots(s) :
        /\ t # u
        /\ hist[s].prev = t /\ hist[s].last = u
        /\ tasks[s][t].pc = "await_greet"
        /\ tasks[s][t].code = "es"
        /\ tasks[s][u].pc = "await_already"
        /\ tasks[s][u].trace = <<Ev("say", "I'm already speaking in Spanish.")>>

\* A switch request has left a mark on session s: an entry in a trace, or a
\* language other than the one the session was created with.
SwitchEffect(s) ==
    \/ \E t \in Slots(s) : InFlight(s, t)
    \/ current_language[s] # "en"
    \/ stt[s].language # default_language
    \/ tts[s].language # default_language

\* C10: a session's hook hands the announcement to the output channel once,
\* and no switch request of the session has any effect before that.
C10_AnnouncedOnceFirst ==
    \A s \in Sessions :
        /\ announced[s] <= 1
        /\ Started(s) => announced[s] = 1
        /\ SwitchEffect(s) => announced[s] = 1

C10_Witness ==
    \E s \in Sessions : \E t \in Slots(s) :
        /\ phase[s] = "entered"
        /\ announced[s] = 1
        /\ tasks[s][t].pc = "done"
        /\ current_language[s] = "de"

\* Session s speaks English and both handles are set to English.
AllEnglish(s) ==
    /\ current_language[s] = "en"
    /\ stt[s].language = "en"
    /\ tts[s].language = "en"

\* C11: a session starts with currentLanguage = "en"; the hook, having handed
\* over the announcement, leaves currentLanguage and both handle languages as
\* they were; so a first request switch_to_english is answered "I'm already
\* speaking in English." with no handle update.
C11_HookLeavesEnglish ==
    \A s \in Sessions :
        /\ phase[s] = "created" => AllEnglish(s)
        /\ (Started(s) /\ hist[s].lastCode = "none") =>
             announced[s] = 1 /\ AllEnglish(s)
        /\ \A t \in Slots(s) :
             LET task == tasks[s][t]
             IN (Latest(s, t) /\ hist[s].prevCode = "none"
                     /\ tool[s][t] = "switch_to_english") =>
                  /\ AllEnglish(s)
                  /\ task.pc \in {"already", "await_already", "done", "raised"}
                  /\ \A i \in DOMAIN task.trace :
                       task.trace[i].op \in {"say", "raise"}
                  /\ Through(task) =>
                       Only(task.trace, "say") =
                           <<Ev("say", "I'm already speaking in English.")>>

\* The hook has run and the first request, switch_to_english, has been
\* answered.
C11_Witness ==
    \E s \in Sessions : \E t \in Slots(s) :
        /\ phase[s] = "entered"
        /\ announced[s] = 1
        /\ Latest(s, t)
        /\ hist[s].prevCode = "none"
        /\ tool[s][t] = "switch_to_english"
        /\ tasks[s][t].pc = "done"
        /\ tasks[s][t].trace = <<Ev("say", "I'm already speaking in English.")>>
        /\ AllEnglish(s)

\* Session s takes the step: its hook runs or one of its calls moves.
Acts(s) == tasks'[s] # tasks[s] \/ phase'[s] # phase[s]

\* C12: with several sessions live, a step of the hook or of a switchTo of
\* one session leaves currentLanguage, the recognizer language and the
\* synthesizer language of every other session as they were, however the
\* sessions' steps interleave.
C12_SessionsIndependent ==
    [][\A s \in Sessions :
          ~Acts(s) =>
             /\ current_language'[s] = current_language[s]
             /\ stt'[s] = stt[s]
             /\ tts'[s] = tts[s]]_vars

\* Two live sessions each greet in their own language at the same time: one
\* has switched to French, the other back to English.
C12_Witness ==
    \E a, b \in Sessions :
        /\ a # b
        /\ current_language[a] = "fr"
        /\ stt[a].language = "fr-CA" /\ tts[a].language = "fr"
        /\ \E t \in Slots(a) : tasks[a][t].pc = "await_greet"
        /\ current_language[b] = "en"
        /\ stt[b].language = "en" /\ tts[b].language = "en"
        /\ \E t \in Slots(b) : tasks[b][t].pc = "await_greet"

\* The six language codes of the specification.
SixCodes == {"en", "es", "fr", "de", "it", "ta"}

\* C13: in every reachable state the registry of a session is complete and
\* as built: display names, recognizer codes and greetings are held for
\* exactly the six codes, the synthesizer code of each of the six is the code
\* itself, no field is empty, and no step of the hook or of a switchTo has
\* added, removed or changed an entry.
C13_RegistryIntact ==
    \A s \in Sessions :
        /\ DOMAIN registry[s].language_names = SixCodes
        /\ DOMAIN registry[s].deepgram_codes = SixCodes
        /\ DOMAIN registry[s].greetings = SixCodes
        /\ Codes = SixCodes
        /\ \A c \in SixCodes :
             /\ registry[s].language_names[c] # ""
             /\ registry[s].deepgram_codes[c] # ""
             /\ registry[s].greetings[c] # ""
             /\ TtsCode(c) = c
        /\ registry[s] = Tables

\* A call with a code the registry does not hold has run through both lookups
\* and raised, and the registry still holds the six codes only.
C13_Witness ==
    \E s \in Sessions : \E t \in Slots(s) :
        /\ tasks[s][t].code = "pt"
        /\ tasks[s][t].pc = "raised"
        /\ stt[s].language = "pt"
        /\ DOMAIN registry[s].deepgram_codes = SixCodes
        /\ registry[s] = Tables

\* The code each intent binding is to pass.
BindingCode ==
    [switch_to_english |-> "en", switch_to_spanish |-> "es",
     switch_to_french |-> "fr", switch_to_german |-> "de",
     switch_to_italian |-> "it", switch_to_tamil |-> "ta"]

\* What switchTo(c) is to do, as a sequence, when cur is the current language
\* and the handles are present or not.
SwitchTo(c, cur, hasStt, hasTts) ==
    IF c = cur
    THEN <<Ev("say", "I'm already speaking in " \o language_names[c] \o ".")>>
    ELSE (IF hasStt THEN <<Ev("stt", RecognizerCodeOf(c))>> ELSE <<>>)
         \o (IF hasTts THEN <<Ev("tts", c)>> ELSE <<>>)
         \o <<Ev("commit", c), Ev("say", greetings[c])>>

\* C14: each of the six bindings runs switchTo with its own code and nothing
\* else: its call carries that code, what it has done once it is through is
\* the sequence of updates, write and utterance of switchTo with that code,
\* and currentLanguage is then the binding's code.
C14_BindingsCallThrough ==
    \A s \in Sessions : \A t \in Slots(s) :
        LET task == tasks[s][t]
        IN tool[s][t] \in DOMAIN BindingCode =>
             /\ task.code = BindingCode[tool[s][t]]
             /\ Through(task) =>
                  SelectSeq(task.trace, LAMBDA e : e.op # "raise") =
                      SwitchTo(BindingCode[tool[s][t]], task.cur0,
                               stt[s].present, tts[s].present)
             /\ (Latest(s, t) /\ Through(task)) =>
                  current_language[s] = BindingCode[tool[s][t]]

C14_Witness ==
    \E s \in Sessions : \E t \in Slots(s) :
        /\ tool[s][t] = "switch_to_german"
        /\ tasks[s][t].pc = "done"
        /\ tasks[s][t].cur0 = "it"
        /\ tasks[s][t].trace =
             <<Ev("stt", "de"), Ev("tts", "de"), Ev("commit", "de"),
               Ev("say", "Hallo! Ich spreche jetzt Deutsch. Wie kann ich Ihnen heute helfen?")>>
        /\ current_language[s] = "de"

\* A step that changes currentLanguage of session s is the write of a call
\* made through a binding with a code other than the language the call found,
\* and it writes that code; the hook's step is not such a step.
ChangedBySwitch(s) ==
    \E t \in Slots(s) :
        LET task == tasks[s][t]
        IN /\ tool[s][t] \in DOMAIN BindingCode
           /\ task.pc = "commit"
           /\ task.code # task.cur0
           /\ task.cur0 = current_language[s]
           /\ current_language'[s] = task.code
           /\ tasks'[s][t].trace = Append(task.trace, Ev("commit", task.code))
           /\ phase'[s] = phase[s]

\* C15: whatever the hook and the bindings are made to do, currentLanguage
\* is one of en, es, fr, de, it, ta in every state, and a step changes it only
\* as the write of a switchTo whose code differs from the current language:
\* the hook and a same-code call leave it as it is.
C15_ClosedAndSwitchOnly ==
    /\ [](\A s \in Sessions : current_language[s] \in SixCodes)
    /\ [][\A s \in Sessions :
            current_language'[s] # current_language[s] => ChangedBySwitch(s)]_vars

C15_Witness ==
    \E s \in Sessions : \E t \in Slots(s) :
        /\ Started(s)
        /\ tool[s][t] = "switch_to_tamil"
        /\ tasks[s][t].cur0 = "es"
        /\ tasks[s][t].pc = "greet"
        /\ current_language[s] = "ta"

\* No coroutine of s holds the event loop: s is between calls, or each of its
\* calls in flight is suspended at a say or has ended.
Observable(s) == running[s] = 0

\* C16: with both speech handles present, in every state between calls or at
\* a suspension point of a call, from the construction of the session on, the
\* recognizer's language is the recognizer code registered for
\* currentLanguage and the synthesizer's language is currentLanguage.
C16_HandlesFollowLanguage ==
    \A s \in Sessions :
        (stt[s].present /\ tts[s].present /\ Observable(s)) =>
            /\ stt[s].language =
                   registry[s].deepgram_codes[current_language[s]]
            /\ tts[s].language = current_language[s]

C16_Witness ==
    \E s \in Sessions : \E t, u \in Slots(s) :
        /\ stt[s].present /\ tts[s].present /\ Observable(s)
        /\ tasks[s][t].pc = "await_greet" /\ tasks[s][t].code = "es"
        /\ tasks[s][u].pc = "await_greet" /\ tasks[s][u].code = "fr"
        /\ tasks[s][u].cur0 = "es"
        /\ current_language[s] = "fr"
        /\ stt[s].language = "fr-CA" /\ tts[s].language = "fr"

\* The same statement without the restriction to observable states, which the
\* states inside a call do not satisfy.
C16_AlsoInsideCall ==
    \A s \in Sessions :
        (stt[s].present /\ tts[s].present) =>
            /\ stt[s].language =
                   registry[s].deepgram_codes[current_language[s]]
            /\ tts[s].language = current_language[s]

====
